---- MODULE Spec2Model ----
(***************************************************************************)
(* Verification model of fergmlx/proyecto-io-colas:                        *)
(*   src/src/queue_models.py        MMcQueue, QueueSimulator               *)
(*   src/src/optimizer.py           CostOptimizer                          *)
(*   src/src/distribution_fitter.py DistributionFitter                     *)
(*                                                                         *)
(* Arithmetic.  The Python code computes in IEEE double precision.  The    *)
(* model computes the same expressions, in the same order, over exact      *)
(* rationals <<numerator, denominator>>; rounding is not modelled.  Two    *)
(* float behaviours that change control flow are modelled:                 *)
(*   - a Python float power whose result exceeds the double range raises   *)
(*     OverflowError (PowOverflows);                                       *)
(*   - numpy scalars divide by zero without raising and yield inf / nan    *)
(*     (Inf, NaN below).                                                   *)
(***************************************************************************)
EXTENDS Integers, Sequences, FiniteSets, TLC

VARIABLES
    queue,      \* outcome of the last MMcQueue(...) construction
    metrics,    \* outcome of the last MMcQueue.calculate_metrics() call
    optimizer,  \* the CostOptimizer instance (its four fields)
    args,       \* the arguments c_min, c_max, sla_wq of the calls on it
    optLocals,  \* optimize's locals c_stability and c_min after line 91
    optCall,    \* outcome of optimizer.optimize(c_min, c_max, sla_wq)
    sensCall,   \* outcome of optimizer.sensitivity_analysis((c_min, c_max))
    sims,       \* the QueueSimulator instances: parameters and sample lists
    rng,        \* numpy's global generator: its seed and how many draws it made
    run,        \* the run_simulation call in progress: simpy environment,
                \* resource and processes
    results,    \* the dicts run_simulation has returned, oldest first
    fitter,     \* the DistributionFitter instance: its fitted_distributions
    bestCall,   \* the last get_best_distribution call: arguments and outcome
    fitCall,    \* the last fit_distributions call: arguments and outcome
    gofCall     \* the last goodness_of_fit_tests call: arguments and outcome

queueVars == <<queue, metrics>>
optVars == <<optimizer, args, optLocals, optCall, sensCall>>
simVars == <<sims, rng, run, results>>
fitVars == <<fitter, bestCall, fitCall, gofCall>>
vars == <<queueVars, optVars, simVars, fitVars>>

(***************************************************************************)
(* Bounds of the model.                                                    *)
(***************************************************************************)
MaxLambda == 3
MaxMu == 2
MaxC == 5
BigRatio == 256
MaxRuns == 2
MaxSimTime == 3

\* sys.float_info.max_exp: a double holds magnitudes below 2^1024
DoubleMaxExp == 1024

(***************************************************************************)
(* Exact rationals.                                                        *)
(***************************************************************************)
Abs(x) == IF x < 0 THEN -x ELSE x

RECURSIVE GCD(_, _)
GCD(a, b) == IF b = 0 THEN a ELSE GCD(b, a % b)

NaN == <<0, 0>>
Inf == <<1, 0>>

IsFinite(x) == x[2] # 0

Rat(n, d) ==
    LET g == GCD(Abs(n), Abs(d))
        s == IF d < 0 THEN -1 ELSE 1
    IN  <<s * (n \div g), s * (d \div g)>>

RatInt(n) == <<n, 1>>

RatAdd(x, y) ==
    IF IsFinite(x) /\ IsFinite(y)
    THEN LET g == GCD(x[2], y[2])
         IN  Rat(x[1] * (y[2] \div g) + y[1] * (x[2] \div g), (x[2] \div g) * y[2])
    ELSE NaN

RatSub(x, y) == RatAdd(x, <<-y[1], y[2]>>)

RatMul(x, y) ==
    IF IsFinite(x) /\ IsFinite(y)
    THEN LET a == Rat(x[1], y[2])
             b == Rat(y[1], x[2])
         IN  <<a[1] * b[1], a[2] * b[2]>>
    ELSE NaN

\* numpy scalar division: x / 0 is nan when x is 0 or nan (inf otherwise,
\* which no expression of the model keeps)
RatDiv(x, y) ==
    IF IsFinite(x) /\ IsFinite(y) /\ y[1] # 0
    THEN RatMul(x, Rat(y[2], y[1]))
    ELSE NaN

RECURSIVE CmpFrac(_, _, _, _)
\* sign of a/b - c/d for a, c >= 0 and b, d > 0, by continued fractions
CmpFrac(a, b, c, d) ==
    LET q1 == a \div b
        q2 == c \div d
        r1 == a % b
        r2 == c % d
    IN  IF q1 # q2 THEN (IF q1 < q2 THEN -1 ELSE 1)
        ELSE IF r1 = 0 /\ r2 = 0 THEN 0
        ELSE IF r1 = 0 THEN -1
        ELSE IF r2 = 0 THEN 1
        ELSE CmpFrac(d, r2, b, r1)

\* sign of x - y for finite rationals
RatCmp(x, y) ==
    IF x[1] < 0 /\ y[1] >= 0 THEN -1
    ELSE IF x[1] >= 0 /\ y[1] < 0 THEN 1
    ELSE IF x[1] >= 0 THEN CmpFrac(x[1], x[2], y[1], y[2])
    ELSE CmpFrac(-y[1], y[2], -x[1], x[2])

\* x < y as Python evaluates it: false when either side is nan, and every
\* finite value is below inf
RatLess(x, y) ==
    IF x = NaN \/ y = NaN THEN FALSE
    ELSE IF y = Inf THEN x # Inf
    ELSE IF x = Inf THEN FALSE
    ELSE RatCmp(x, y) < 0

RatLeq(x, y) ==
    IF x = NaN \/ y = NaN THEN FALSE
    ELSE IF y = Inf THEN TRUE
    ELSE IF x = Inf THEN FALSE
    ELSE RatCmp(x, y) <= 0

RECURSIVE RatPow(_, _)
RatPow(x, n) == IF n = 0 THEN RatInt(1) ELSE RatMul(x, RatPow(x, n - 1))

RECURSIVE Factorial(_)
Factorial(n) == IF n <= 0 THEN 1 ELSE n * Factorial(n - 1)

RECURSIVE Log2Floor(_)
Log2Floor(n) == IF n < 2 THEN 0 ELSE 1 + Log2Floor(n \div 2)

(***************************************************************************)
(* Python outcomes: a call either returns a value or raises.               *)
(***************************************************************************)
NotCalled == [kind |-> "none"]
Return(v) == [kind |-> "return", value |-> v]
Raise(e) == [kind |-> "raise", error |-> e]

\* an optional value: Python's None, or a value
None == [given |-> FALSE]
Some(v) == [given |-> TRUE, value |-> v]

(***************************************************************************)
(* MMcQueue (queue_models.py).                                             *)
(***************************************************************************)
\* MMcQueue.__init__: stores the arguments unchecked and divides
MMcQueue(lambda_rate, mu_rate, c_servers) ==
    IF c_servers * mu_rate = 0
    THEN Raise("ZeroDivisionError")
    ELSE Return([lambda_rate |-> lambda_rate, mu_rate |-> mu_rate, c |-> c_servers,
                 rho |-> Rat(lambda_rate, c_servers * mu_rate)])

is_stable(q) == RatLess(q.rho, RatInt(1))

\* (lam/mu)**n leaves the double range: |lam/mu| >= 2^k gives |lam/mu|^n >= 2^(k*n)
PowOverflows(lam, mu, n) ==
    n > 0 /\ n * Log2Floor(Abs(lam) \div Abs(mu)) >= DoubleMaxExp

\* the exception, if any, raised by the powers (lam/mu)**n that
\* _calculate_p0 evaluates for n = 0 .. c ("" when none is raised)
PowError(q) ==
    IF q.c < 0
    THEN (IF q.lambda_rate = 0 THEN "ZeroDivisionError" ELSE "")
    ELSE IF \E n \in 0..q.c : PowOverflows(q.lambda_rate, q.mu_rate, n)
         THEN "OverflowError"
         ELSE ""

RECURSIVE SumTerm(_, _)
\* sum([(lam/mu)**n / factorial(n) for n in range(c)])
SumTerm(a, c) ==
    IF c <= 0 THEN RatInt(0)
    ELSE RatAdd(SumTerm(a, c - 1), RatDiv(RatPow(a, c - 1), RatInt(Factorial(c - 1))))

\* 1 / (1 - rho)
InvOneMinusRho(q) == RatDiv(RatInt(1), RatSub(RatInt(1), q.rho))

\* _calculate_p0 for c >= 1
calculate_p0(q) ==
    LET a == Rat(q.lambda_rate, q.mu_rate)
        sum_term == SumTerm(a, q.c)
        last_term == RatMul(RatDiv(RatPow(a, q.c), RatInt(Factorial(q.c))),
                            InvOneMinusRho(q))
    IN  RatDiv(RatInt(1), RatAdd(sum_term, last_term))

\* lines 89-102: the dict, with l (line 84) and w (line 87), given the
\* values of a = lam/mu, p0, pw, lq and wq
MetricsDict(q, a, p0, pw, lq, wq) ==
    [stable |-> TRUE, rho |-> q.rho,
     utilization_percent |-> RatMul(q.rho, RatInt(100)),
     P0 |-> p0, Pw_erlang_c |-> pw, Lq |-> lq,
     L |-> RatAdd(lq, a),
     Wq |-> wq,
     W |-> RatAdd(wq, RatDiv(RatInt(1), RatInt(q.mu_rate))),
     lambda |-> q.lambda_rate, mu |-> q.mu_rate, c |-> q.c]

\* line 81: wq = lq / lam
MetricsFromLq(q, a, p0, pw, lq) ==
    MetricsDict(q, a, p0, pw, lq, RatDiv(lq, RatInt(q.lambda_rate)))

\* line 78: lq = pw * rho / (1 - rho)
MetricsFromPw(q, a, p0, pw) ==
    MetricsFromLq(q, a, p0, pw, RatDiv(RatMul(pw, q.rho), RatSub(RatInt(1), q.rho)))

\* line 75: pw.  For c < 0 factorial(c) is 0.0, so the quotient is +-inf and
\* pw = inf * 0.0 is nan
MetricsFromP0(q, a, p0) ==
    MetricsFromPw(q, a, p0,
        IF q.c < 0 THEN NaN
        ELSE RatMul(RatMul(RatDiv(RatPow(a, q.c), RatInt(Factorial(q.c))),
                           InvOneMinusRho(q)), p0))

\* the dict calculate_metrics returns for a stable queue.  For c < 0
\* last_term is +-inf and p0 is 0.0
StableMetrics(q) ==
    MetricsFromP0(q, Rat(q.lambda_rate, q.mu_rate),
                  IF q.c < 0 THEN RatInt(0) ELSE calculate_p0(q))

\* MMcQueue.calculate_metrics
calculate_metrics(q) ==
    IF ~is_stable(q)
    THEN Return([stable |-> FALSE, rho |-> q.rho,
                 message |-> "Sistema inestable: rho >= 1"])
    ELSE IF PowError(q) # ""
    THEN Raise(PowError(q))
    ELSE Return(StableMetrics(q))

(***************************************************************************)
(* CostOptimizer (optimizer.py).                                           *)
(***************************************************************************)
\* the sentinel 1e10 of objective_function.  It exceeds TLC's integers and
\* is kept symbolic: it is returned for c <= 0 or an unstable queue only,
\* and optimize calls objective_function for stable c alone.
SentinelCost == <<1, -1>>

\* int(np.ceil(lam / mu)) for mu > 0
CeilDiv(lam, mu) == -((-lam) \div mu)

\* bool(sla_wq): None and 0 are falsy
Truthy(sla_wq) == sla_wq.given /\ sla_wq.value[1] # 0

\* lines 61-69 of objective_function, given the outcome m of
\* calculate_metrics
CostOf(o, c, m) ==
    IF m.kind = "raise" THEN m
    ELSE IF ~m.value.stable THEN Return(SentinelCost)
    ELSE Return(RatAdd(RatMul(RatInt(c), RatInt(o.cost_server)),
                       RatMul(m.value.Lq, RatInt(o.cost_waiting))))

\* lines 56-59 of objective_function, given the outcome q of MMcQueue(...)
CostOfQueue(o, c, q) ==
    IF q.kind = "raise" THEN q
    ELSE IF ~is_stable(q.value) THEN Return(SentinelCost)
    ELSE CostOf(o, c, calculate_metrics(q.value))

\* CostOptimizer.objective_function(c) for an integer c
objective_function(o, c) ==
    IF c <= 0 THEN Return(SentinelCost)
    ELSE CostOfQueue(o, c, MMcQueue(o.lambda_rate, o.mu_rate, c))

\* a comparison that also replaces the incumbent on a tie: the scan would
\* then keep the last minimum
ImprovesOrTies(cost, best_cost) == RatLeq(cost, best_cost)

\* line 123: if cost < best_cost
Improves(cost, best_cost) == RatLess(cost, best_cost)

\* a scan without the SLA filter of line 109
NoSlaFilter(m, sla_wq) == FALSE

\* line 109: sla_wq is not None and metrics['Wq'] > sla_wq
ViolatesSla(m, sla_wq) == sla_wq.given /\ RatLess(sla_wq.value, m.Wq)

\* lines 90-91: the lower end of the scan
c_stability(o) == CeilDiv(o.lambda_rate, o.mu_rate) + 1

ScanMin(o, c_min) == IF c_min > c_stability(o) THEN c_min ELSE c_stability(o)

\* "if not queue.is_stable(): continue": the first c of range(c0, c_max + 1)
\* whose iteration does more than continue (c_max + 1 when there is none)
SkipUnstable(o, c0, c_max) ==
    LET acts == {c \in c0..c_max :
                    \/ MMcQueue(o.lambda_rate, o.mu_rate, c).kind = "raise"
                    \/ is_stable(MMcQueue(o.lambda_rate, o.mu_rate, c).value)}
    IN  IF acts = {} THEN c_max + 1
        ELSE CHOOSE c \in acts : \A d \in acts : c <= d

RECURSIVE OptimizeScan(_, _, _, _, _)

\* lines 114-126: the row appended for c and the update of the incumbent,
\* given the metrics m of c and the outcome z of objective_function(c)
OptimizeRow(o, c, c_max, sla_wq, acc, m, z) ==
    IF z.kind = "raise" THEN [acc EXCEPT !.error = z.error]
    ELSE OptimizeScan(o, c + 1, c_max, sla_wq,
             [acc EXCEPT
                 !.results = Append(@, [c |-> c, cost |-> z.value,
                                        Lq |-> m.Lq, Wq |-> m.Wq, rho |-> m.rho,
                                        meets_sla |-> IF Truthy(sla_wq)
                                                      THEN RatLeq(m.Wq, sla_wq.value)
                                                      ELSE TRUE]),
                 !.best_c = IF Improves(z.value, acc.best_cost) THEN <<c>> ELSE @,
                 !.best_metrics = IF Improves(z.value, acc.best_cost) THEN <<m>> ELSE @,
                 !.best_cost = IF Improves(z.value, acc.best_cost) THEN z.value ELSE @])

\* lines 106-112, given the outcome m of queue.calculate_metrics()
OptimizeMetrics(o, c, c_max, sla_wq, acc, m) ==
    IF m.kind = "raise" THEN [acc EXCEPT !.error = m.error]
    ELSE IF ViolatesSla(m.value, sla_wq)
    THEN OptimizeScan(o, c + 1, c_max, sla_wq, acc)
    ELSE OptimizeRow(o, c, c_max, sla_wq, acc, m.value, objective_function(o, c))

\* lines 101-106, given the outcome q of MMcQueue(lambda_rate, mu_rate, c)
OptimizeQueue(o, c, c_max, sla_wq, acc, q) ==
    IF q.kind = "raise" THEN [acc EXCEPT !.error = q.error]
    ELSE OptimizeMetrics(o, c, c_max, sla_wq, acc, calculate_metrics(q.value))

\* the loop body at c, the first server count that is not skipped
OptimizeAt(o, c, c_max, sla_wq, acc) ==
    IF c > c_max THEN acc
    ELSE OptimizeQueue(o, c, c_max, sla_wq, acc,
                       MMcQueue(o.lambda_rate, o.mu_rate, c))

\* lines 100-126: the loop from c0 on: the body at the first c that is not
\* skipped as unstable, then the rest of range(c_min, c_max + 1);
\* acc holds best_c, best_cost, best_metrics, results and a raised exception
OptimizeScan(o, c0, c_max, sla_wq, acc) ==
    OptimizeAt(o, SkipUnstable(o, c0, c_max), c_max, sla_wq, acc)

\* lines 128-143: what optimize returns after the loop ended with acc
OptimizeResult(o, sla_wq, acc) ==
    IF acc.error # "" THEN Raise(acc.error)
    ELSE IF acc.best_c = <<>>
    THEN Return([success |-> FALSE, message |-> "No se encontro solucion factible"])
    ELSE Return([success |-> TRUE,
                 optimal_c |-> acc.best_c[1],
                 total_cost |-> acc.best_cost,
                 server_cost |-> RatInt(acc.best_c[1] * o.cost_server),
                 waiting_cost |-> RatMul(acc.best_metrics[1].Lq, RatInt(o.cost_waiting)),
                 metrics |-> acc.best_metrics[1],
                 all_results |-> acc.results,
                 sla_wq |-> sla_wq])

\* CostOptimizer.optimize(c_min, c_max, sla_wq)
optimize(o, c_min, c_max, sla_wq) ==
    OptimizeResult(o, sla_wq,
        OptimizeScan(o, ScanMin(o, c_min), c_max, sla_wq,
            [best_c |-> <<>>, best_cost |-> Inf, best_metrics |-> <<>>,
             results |-> <<>>, error |-> ""]))

RECURSIVE SensitivityScan(_, _, _, _)

\* lines 187-193: the entries appended for c, given its metrics and costs
SensitivityRow(o, c, c_max, acc, m, server_cost, waiting_cost) ==
    SensitivityScan(o, c + 1, c_max,
        [acc EXCEPT
            !.c_values = Append(@, c),
            !.total_costs = Append(@, RatAdd(server_cost, waiting_cost)),
            !.server_costs = Append(@, server_cost),
            !.waiting_costs = Append(@, waiting_cost),
            !.utilizations = Append(@, m.rho),
            !.wq_values = Append(@, m.Wq),
            !.lq_values = Append(@, m.Lq)])

\* lines 181-185, given the outcome m of queue.calculate_metrics()
SensitivityMetrics(o, c, c_max, acc, m) ==
    IF m.kind = "raise" THEN [acc EXCEPT !.error = m.error]
    ELSE SensitivityRow(o, c, c_max, acc, m.value,
                        RatInt(c * o.cost_server),
                        RatMul(m.value.Lq, RatInt(o.cost_waiting)))

\* lines 176-181, given the outcome q of MMcQueue(lambda_rate, mu_rate, c)
SensitivityQueue(o, c, c_max, acc, q) ==
    IF q.kind = "raise" THEN [acc EXCEPT !.error = q.error]
    ELSE SensitivityMetrics(o, c, c_max, acc, calculate_metrics(q.value))

\* the loop body at c, the first server count that is not skipped
SensitivityAt(o, c, c_max, acc) ==
    IF c > c_max THEN acc
    ELSE SensitivityQueue(o, c, c_max, acc, MMcQueue(o.lambda_rate, o.mu_rate, c))

\* lines 175-193: the loop of sensitivity_analysis; acc holds the parallel
\* lists and a raised exception
SensitivityScan(o, c0, c_max, acc) ==
    SensitivityAt(o, SkipUnstable(o, c0, c_max), c_max, acc)

\* np.argmin: the first index holding the least value
ArgMin(costs) ==
    CHOOSE i \in 1..Len(costs) :
        /\ \A j \in 1..Len(costs) : RatLeq(costs[i], costs[j])
        /\ \A j \in 1..(i - 1) : RatLess(costs[i], costs[j])

\* lines 195-201: what sensitivity_analysis returns after the loop ended
\* with acc; lists are the seven parallel lists
SensitivityResult(acc, lists) ==
    IF acc.error # "" THEN Raise(acc.error)
    ELSE IF acc.total_costs # <<>>
    THEN Return([has_optimum |-> TRUE, lists |-> lists,
                 optimal_c |-> acc.c_values[ArgMin(acc.total_costs)],
                 optimal_cost |-> acc.total_costs[ArgMin(acc.total_costs)]])
    ELSE Return([has_optimum |-> FALSE, lists |-> lists])

\* the dict of lists without the model's error field
ListsOf(acc) == [k \in DOMAIN acc \ {"error"} |-> acc[k]]

\* lines 165-201 for the loop's outcome acc
SensitivityReturn(acc) == SensitivityResult(acc, ListsOf(acc))

\* CostOptimizer.sensitivity_analysis((c_min, c_max))
sensitivity_analysis(o, c_min, c_max) ==
    SensitivityReturn(
        SensitivityScan(o, c_min, c_max,
            [c_values |-> <<>>, total_costs |-> <<>>, server_costs |-> <<>>,
             waiting_costs |-> <<>>, utilizations |-> <<>>, wq_values |-> <<>>,
             lq_values |-> <<>>, error |-> ""]))

(***************************************************************************)
(* QueueSimulator (queue_models.py), on simpy's Environment and Resource.  *)
(***************************************************************************)
\* QueueSimulator.__init__: stores the arguments unchecked, with empty lists
QueueSimulator(lambda_rate, mu_rate, c_servers, sim_time) ==
    [kind |-> "simulator",
     lambda_rate |-> lambda_rate, mu_rate |-> mu_rate,
     c_servers |-> c_servers, sim_time |-> sim_time,
     wait_times |-> <<>>, system_times |-> <<>>, queue_lengths |-> <<>>]

\* The pseudo-random generator: np.random.seed(seed) selects a stream, and
\* each expon.rvs call consumes its next standard-exponential sample.
Streams ==
    << <<1, 1, 2, 1, 1, 3, 2, 1>>,
       <<1, 2, 1, 1, 3, 1, 1, 2>>,
       <<2, 1, 3, 1, 1, 1, 2, 3>> >>

Seeds == 1..Len(Streams)

Draw(seed, pos) == Streams[seed][(pos % Len(Streams[seed])) + 1]

\* expon.rvs(scale=1/rate) on the generator state g
expon_rvs(g, rate) == Rat(Draw(g.seed, g.pos), rate)

Advance(g) == [g EXCEPT !.pos = @ + 1]

\* simpy's event priorities
URGENT == 0
NORMAL == 1

\* env.schedule(event, priority, delay) on the environment r
Schedule(r, kind, who, prio, delay) ==
    [r EXCEPT !.heap = @ \cup {[t |-> RatAdd(r.now, delay), prio |-> prio,
                                eid |-> r.eid, kind |-> kind, who |-> who]},
              !.eid = @ + 1]

\* the heap order: time, then priority, then insertion
Before(e, f) ==
    \/ RatLess(e.t, f.t)
    \/ e.t = f.t /\ e.prio < f.prio
    \/ e.t = f.t /\ e.prio = f.prio /\ e.eid < f.eid

\* the event env.step() pops
NextEvent(r) == CHOOSE e \in r.heap : \A f \in r.heap \ {e} : Before(e, f)

\* env.step(): pop the event and advance the clock to it
Pop(r) == [r EXCEPT !.heap = @ \ {NextEvent(r)}, !.now = NextEvent(r).t]

\* the most recent request of the put queue: what a last-come-first-served
\* resource would consider
NewestRequest(put_queue) == put_queue[Len(put_queue)]

\* the request Resource._trigger_put considers: the head of the put queue
NextRequest(put_queue) == Head(put_queue)

\* a resource that grants the head request whether or not a server is free
GrantRegardless(r, capacity) ==
    IF r.put_queue # <<>>
    THEN LET k == NextRequest(r.put_queue)
         IN  Schedule([r EXCEPT !.users = Append(@, k),
                                !.put_queue = SelectSeq(@, LAMBDA x : x # k),
                                !.cust[k].usage_since = <<r.now>>],
                      "Request", k, NORMAL, RatInt(0))
    ELSE r

\* Resource._trigger_put: the loop stops after its first request (_do_put
\* returns None), which is granted when a server is free
TriggerPut(r, capacity) ==
    IF r.put_queue # <<>> /\ Len(r.users) < capacity
    THEN LET k == NextRequest(r.put_queue)
         IN  Schedule([r EXCEPT !.users = Append(@, k),
                                !.put_queue = SelectSeq(@, LAMBDA x : x # k),
                                !.cust[k].usage_since = <<r.now>>],
                      "Request", k, NORMAL, RatInt(0))
    ELSE r

RECURSIVE RatSum(_)
RatSum(xs) == IF xs = <<>> THEN RatInt(0) ELSE RatAdd(Head(xs), RatSum(Tail(xs)))

\* a stop one time unit past the configured horizon
RunPastHorizon(sim) == RatInt(sim.sim_time + 1)

\* line 182: env.run(until=self.sim_time) stops the run at this clock value
RunUntil(sim) == RatInt(sim.sim_time)

\* np.mean: nan for an empty list
Mean(xs) == IF xs = <<>> THEN NaN ELSE RatDiv(RatSum(xs), RatInt(Len(xs)))

\* lines 185-200: the dict run_simulation returns.  Its three sample lists
\* are the simulator's own list objects: `returned` holds their contents at
\* the return, `inst` names the simulator whose lists they are.  `spawned`
\* is customer_generator's customer_count when the run stopped and `before`
\* the lengths the three lists had when run_simulation was called.
SimulationResult(sim, r) ==
    [inst |-> r.inst, seed |-> r.seed,
     Wq_simulated |-> Mean(sim.wait_times),
     W_simulated |-> Mean(sim.system_times),
     Lq_simulated |-> Mean([i \in 1..Len(sim.queue_lengths) |-> RatInt(sim.queue_lengths[i])]),
     L_simulated |-> RatAdd(Mean([i \in 1..Len(sim.queue_lengths) |-> RatInt(sim.queue_lengths[i])]),
                            Rat(sim.lambda_rate, sim.mu_rate)),
     total_customers |-> Len(sim.wait_times),
     sim_time |-> sim.sim_time,
     returned |-> [wait_times |-> sim.wait_times,
                   system_times |-> sim.system_times,
                   queue_lengths |-> sim.queue_lengths],
     params |-> <<sim.lambda_rate, sim.mu_rate, sim.c_servers, sim.sim_time>>,
     before |-> r.before,
     spawned |-> r.customer_count,
     cust |-> r.cust]

(***************************************************************************)
(* DistributionFitter.  scipy's maximum-likelihood fit is a function of     *)
(* the data and the family; the model tabulates, for three samples, the    *)
(* log-likelihood at the fitted parameters (in tenths) and the fits that   *)
(* fail, and identifies the fitted parameters by <<family, data>>.         *)
(***************************************************************************)
DataSets == {"interarrival", "service", "short"}

\* len(data) and np.log(len(data)) in tenths
SampleSize(data) ==
    CASE data = "interarrival" -> 100
      [] data = "service" -> 20
      [] data = "short" -> 8

LogTenths(n) ==
    CASE n = 100 -> 46
      [] n = 20 -> 30
      [] n = 8 -> 21

\* the names getattr(stats, dist_name) finds
ScipyDistributions == {"expon", "gamma", "lognorm", "weibull_min"}

\* len(params): (loc, scale) for expon, (shape, loc, scale) for the others
ParamCount(dist_name) == IF dist_name = "expon" THEN 2 ELSE 3

\* dist.fit(data) raises
FitFails(data, dist_name) == data = "service" /\ dist_name = "weibull_min"

\* np.sum(dist.logpdf(data, *params)) in tenths
LogLikelihoodTenths(data, dist_name) ==
    CASE data = "interarrival" ->
             (CASE dist_name = "expon" -> -5000
                [] dist_name = "gamma" -> -4985
                [] dist_name = "lognorm" -> -5200
                [] dist_name = "weibull_min" -> -4990)
      [] data = "service" ->
             (CASE dist_name = "expon" -> -1200
                [] dist_name = "gamma" -> -1180
                [] dist_name = "lognorm" -> -1000
                [] dist_name = "weibull_min" -> -1190)
      [] data = "short" ->
             (CASE dist_name = "expon" -> -400
                [] dist_name = "gamma" -> -250
                [] dist_name = "lognorm" -> -300
                [] dist_name = "weibull_min" -> -250)

\* lines 37-54: one pass of the loop body, the entry stored for dist_name
FitOne(data, dist_name) ==
    IF dist_name \notin ScipyDistributions THEN Raise("AttributeError")
    ELSE IF FitFails(data, dist_name) THEN Raise("FitError")
    ELSE LET ll == LogLikelihoodTenths(data, dist_name)
             k == ParamCount(dist_name)
             n == SampleSize(data)
         IN  Return([params |-> <<dist_name, data>>,
                     log_likelihood |-> Rat(ll, 10),
                     aic |-> Rat(2 * k * 10 - 2 * ll, 10),
                     bic |-> Rat(k * LogTenths(n) - 2 * ll, 10)])

\* results[dist_name] = info on a dict kept as its items in insertion order
DictSet(items, name, info) ==
    IF \E i \in 1..Len(items) : items[i].name = name
    THEN [i \in 1..Len(items) |->
             IF items[i].name = name THEN [name |-> name, info |-> info] ELSE items[i]]
    ELSE Append(items, [name |-> name, info |-> info])

RECURSIVE FitLoopAborting(_, _, _)
\* a loop without the try/except: the first family whose fit raises ends it
FitLoopAborting(data, distributions, fit_results) ==
    IF distributions = <<>> THEN fit_results
    ELSE LET fit == FitOne(data, Head(distributions))
         IN  IF fit.kind = "raise" THEN fit_results
             ELSE FitLoopAborting(data, Tail(distributions),
                                  DictSet(fit_results, Head(distributions), fit.value))

RECURSIVE FitLoop(_, _, _)
\* lines 36-57: a family whose fit raises is reported and skipped
FitLoop(data, distributions, fit_results) ==
    IF distributions = <<>> THEN fit_results
    ELSE LET fit == FitOne(data, Head(distributions))
         IN  FitLoop(data, Tail(distributions),
                     IF fit.kind = "raise" THEN fit_results
                     ELSE DictSet(fit_results, Head(distributions), fit.value))

\* line 18: the default of the parameter distributions
DefaultDistributions == <<"expon", "gamma", "lognorm", "weibull_min">>

\* fit_distributions: the dict it returns and stores in fitted_distributions
fit_distributions(data, distributions) == FitLoop(data, distributions, <<>>)

\* line 133: if value < best_value, with best_value starting at np.inf
BeatsBest(value, best_value) == best_value = Inf \/ RatLess(value, best_value)

RECURSIVE BestScan(_, _, _)
\* lines 127-136: the scan over fitted_distributions.items()
BestScan(items, criterion, best) ==
    IF items = <<>> THEN Return(best)
    ELSE IF criterion \notin DOMAIN Head(items).info THEN Raise("KeyError")
    ELSE LET value == Head(items).info[criterion]
         IN  BestScan(Tail(items), criterion,
                      IF BeatsBest(value, best[3])
                      THEN <<Some(Head(items).name), Some(Head(items).info.params), value>>
                      ELSE best)

\* lines 123-138 on the given fitted_distributions
BestOf(fitted, criterion) == BestScan(fitted, criterion, <<None, None, Inf>>)

\* lines 124-125: fitted_distributions after the fit an empty cache triggers
EnsureFitted(fitted, data) ==
    IF fitted = <<>> THEN fit_distributions(data, DefaultDistributions) ELSE fitted

\* get_best_distribution(data, criterion) on a fitter holding `fitted`
get_best_distribution(fitted, data, criterion) ==
    BestOf(EnsureFitted(fitted, data), criterion)

(***************************************************************************)
(* goodness_of_fit_tests.  np.histogram and the fitted CDF are tabulated:  *)
(* for each sample, its counts in the 20 bins and, for the parameters      *)
(* fitted to it, the expected counts (in tenths), both listed up to the    *)
(* last non-zero bin.                                                      *)
(***************************************************************************)
\* line 89: bins=20
NumBins == 20

\* line 98: expected > 5
MinExpected == 5

\* the counts of all the bins, given those up to the last non-zero one
PadBins(counts) == [i \in 1..NumBins |-> IF i <= Len(counts) THEN counts[i] ELSE 0]

\* observed of line 89
ObservedCounts(data) ==
    PadBins(CASE data = "interarrival" -> <<32, 20, 14, 11, 8, 5, 4, 3, 2, 1>>
              [] data = "service" -> <<7, 6, 3, 2, 1, 1>>
              [] data = "short" -> <<6, 1, 0, 1>>)

\* expected of lines 90-95, in tenths
ExpectedTenths(data, dist_name) ==
    PadBins(IF dist_name = "expon"
            THEN CASE data = "interarrival" -> <<300, 210, 150, 100, 70, 50, 40, 30, 20, 10>>
                   [] data = "service" -> <<70, 60, 30, 20, 10, 10>>
                   [] data = "short" -> <<55, 15, 5, 5>>
            ELSE CASE data = "interarrival" -> <<250, 250, 200, 100, 100, 50, 50>>
                   [] data = "service" -> <<50, 50, 40, 30, 20, 10>>
                   [] data = "short" -> <<40, 20, 10, 10>>)

\* line 98: the bins of mask, in order
Mask(expected) ==
    SelectSeq([i \in 1..NumBins |-> i], LAMBDA i : expected[i] > MinExpected * 10)

RECURSIVE SumOver(_, _)
\* the sum of the values f[i] for i in the sequence bins
SumOver(f, bins) ==
    IF bins = <<>> THEN 0 ELSE f[Head(bins)] + SumOver(f, Tail(bins))

RECURSIVE ChiSquareSum(_, _, _)
\* sum((f_obs - f_exp)**2 / f_exp) over the bins
ChiSquareSum(observed, expected, bins) ==
    IF bins = <<>> THEN RatInt(0)
    ELSE LET d == observed[Head(bins)] * 10 - expected[Head(bins)]
         IN  RatAdd(Rat(d * d, expected[Head(bins)] * 10),
                    ChiSquareSum(observed, expected, Tail(bins)))

\* stats.chisquare(observed[mask], expected[mask]).  What it does on two
\* inputs depends on the installed scipy, which the repository does not pin:
\* a scipy that checks the sums (scipy.sum_check) raises when the observed
\* and expected totals differ, an older one does not; for empty input the
\* statistic is the empty sum 0.0, or nan in a scipy that reports too-small
\* samples (scipy.nan_on_empty).  The p-value is chi2.sf(statistic, dof),
\* kept unevaluated; it is nan for dof <= 0.
chisquare(observed, expected, bins, scipy) ==
    IF scipy.sum_check /\ SumOver(observed, bins) * 10 # SumOver(expected, bins)
    THEN Raise("ValueError")
    ELSE Return([statistic |-> IF bins = <<>> /\ scipy.nan_on_empty THEN NaN
                               ELSE ChiSquareSum(observed, expected, bins),
                 pvalue |-> [sf_at |-> ChiSquareSum(observed, expected, bins),
                             dof |-> Len(bins) - 1]])

\* lines 101-106: the dict, given the outcome of stats.chisquare
GofResult(data, distribution, chi2) ==
    IF chi2.kind = "raise" THEN chi2
    ELSE Return([ks_statistic |-> <<"kstest.statistic", data, distribution>>,
                 ks_pvalue |-> <<"kstest.pvalue", data, distribution>>,
                 chi2_statistic |-> chi2.value.statistic,
                 chi2_pvalue |-> chi2.value.pvalue])

\* goodness_of_fit_tests(data, distribution, params) for a distribution name
\* and the parameters fitted to data
goodness_of_fit_tests(data, distribution, scipy) ==
    IF distribution \notin ScipyDistributions THEN Raise("AttributeError")
    ELSE GofResult(data, distribution,
                   chisquare(ObservedCounts(data), ExpectedTenths(data, distribution),
                             Mask(ExpectedTenths(data, distribution)), scipy))

(***************************************************************************)
(* Each specification below exercises one component; the state of the      *)
(* others stays as it is before they are used.                             *)
(***************************************************************************)
NoQueue ==
    /\ queue = NotCalled
    /\ metrics = NotCalled

NoOptimizer ==
    /\ optimizer = NotCalled
    /\ args = NotCalled
    /\ optLocals = NotCalled
    /\ optCall = NotCalled
    /\ sensCall = NotCalled

\* the simulator instances
SimIds == {1, 2}

Idle == [kind |-> "idle"]

NoSimulator ==
    /\ sims = [i \in SimIds |-> NotCalled]
    /\ rng = [seed |-> 0, pos |-> 0]
    /\ run = Idle
    /\ results = <<>>

NoFitter ==
    /\ fitter = NotCalled
    /\ bestCall = NotCalled
    /\ fitCall = NotCalled
    /\ gofCall = NotCalled

(***************************************************************************)
(* Inputs of the queue-model specification.                                *)
(***************************************************************************)
QueueArgs ==
    ((-1..MaxLambda) \X (0..MaxMu) \X (-1..MaxC))
        \cup {<<BigRatio, 1, BigRatio>>, <<BigRatio, 1, BigRatio + 1>>}

SimulatorArgs == (-1..1) \X (-1..1) \X (-1..1) \X {0, MaxSimTime}

\* each behaviour constructs one configuration
NothingConstructed ==
    /\ queue = NotCalled
    /\ \A i \in SimIds : sims[i] = NotCalled

InitQueue ==
    /\ queue = NotCalled
    /\ metrics = NotCalled
    /\ NoOptimizer
    /\ NoSimulator
    /\ NoFitter

\* queue = MMcQueue(lam, mu, c)
NewMMcQueue ==
    \E a \in QueueArgs :
        /\ NothingConstructed
        /\ queue' = MMcQueue(a[1], a[2], a[3])
        /\ metrics' = NotCalled
        /\ UNCHANGED <<fitVars, optVars, simVars>>

\* metrics = queue.calculate_metrics()
CallCalculateMetrics ==
    /\ queue.kind = "return"
    /\ metrics' = calculate_metrics(queue.value)
    /\ UNCHANGED <<fitVars, queue, optVars, simVars>>

\* sims[i] = QueueSimulator(lam, mu, c, sim_time)
NewQueueSimulator ==
    \E i \in SimIds, a \in SimulatorArgs :
        /\ NothingConstructed
        /\ sims' = [sims EXCEPT ![i] = QueueSimulator(a[1], a[2], a[3], a[4])]
        /\ UNCHANGED <<fitVars, queueVars, optVars, rng, run, results>>

NextQueue == NewMMcQueue \/ CallCalculateMetrics \/ NewQueueSimulator

SpecQueue == InitQueue /\ [][NextQueue]_vars

(***************************************************************************)
(* Inputs of the optimizer specification: valid rates (lambda, mu > 0),    *)
(* any cost coefficients, any integer range, an optional SLA.              *)
(***************************************************************************)
Rates == (1..MaxLambda) \X (1..MaxMu)
CostServers == {-1, 0, 1}
CostWaitings == {0, 2, 25}
CMins == 0..MaxC
CMaxs == 0..MaxC
\* a traffic intensity of BigRatio servers' worth, whose first stable server
\* count is BigRatio + 1; the exact arithmetic of the model does not reach
\* such c, so only this rate is scanned that far, and only with no SLA or
\* an SLA of 0
BigRates == {<<BigRatio, 1>>}
BigCMaxs == {MaxC, BigRatio + 1}
Slas == {None, Some(<<0, 1>>), Some(<<1, 20>>)}
BigSlas == {None, Some(<<0, 1>>)}
Configs ==
    (Rates \X CMins \X CMaxs \X Slas) \cup (BigRates \X CMins \X BigCMaxs \X BigSlas)

\* optimizer = CostOptimizer(lam, mu, cost_server, cost_waiting), and the
\* arguments the calls below are made with
InitOptimizer ==
    /\ NoQueue
    /\ NoSimulator
    /\ NoFitter
    /\ \E cfg \in Configs, cs \in CostServers, cw \in CostWaitings :
          /\ optimizer = [lambda_rate |-> cfg[1][1], mu_rate |-> cfg[1][2],
                          cost_server |-> cs, cost_waiting |-> cw]
          /\ args = [c_min |-> cfg[2], c_max |-> cfg[3], sla_wq |-> cfg[4]]
    /\ optLocals = NotCalled
    /\ optCall = NotCalled
    /\ sensCall = NotCalled

\* optimizer.optimize(c_min, c_max, sla_wq)
CallOptimize ==
    /\ optCall = NotCalled
    /\ optLocals' = [c_stability |-> c_stability(optimizer),
                     c_min |-> ScanMin(optimizer, args.c_min)]
    /\ optCall' = optimize(optimizer, args.c_min, args.c_max, args.sla_wq)
    /\ UNCHANGED <<fitVars, queueVars, simVars, optimizer, args, sensCall>>

\* optimizer.sensitivity_analysis((c_min, c_max))
CallSensitivityAnalysis ==
    /\ sensCall = NotCalled
    /\ sensCall' = sensitivity_analysis(optimizer, args.c_min, args.c_max)
    /\ UNCHANGED <<fitVars, queueVars, simVars, optimizer, args, optLocals, optCall>>

NextOptimizer == CallOptimize \/ CallSensitivityAnalysis

SpecOptimizer == InitOptimizer /\ [][NextOptimizer]_vars

(***************************************************************************)
(* The simulator specification: NumSims simulators with valid parameters,  *)
(* on which run_simulation is called up to MaxRuns times, one call at a    *)
(* time; a call advances one env.step() per action.                        *)
(***************************************************************************)
SimParams == {1, 2} \X {1} \X {1, 2} \X {MaxSimTime}

InitSimulator ==
    /\ NoQueue
    /\ NoOptimizer
    /\ NoFitter
    /\ sims \in [SimIds -> {QueueSimulator(a[1], a[2], a[3], a[4]) : a \in SimParams}]
    /\ rng = [seed |-> 0, pos |-> 0]
    /\ run = Idle
    /\ results = <<>>

Running(kind) == run.kind = "running" /\ NextEvent(run).kind = kind

\* run_simulation(seed) up to env.run: lines 176-182
StartRun ==
    \E i \in SimIds, seed \in Seeds :
        /\ run = Idle
        /\ Len(results) < MaxRuns
        /\ rng' = [seed |-> seed, pos |-> 0]
        /\ run' = LET env == [kind |-> "running", inst |-> i, seed |-> seed,
                              before |-> [wait_times |-> Len(sims[i].wait_times),
                                          system_times |-> Len(sims[i].system_times),
                                          queue_lengths |-> Len(sims[i].queue_lengths)],
                              now |-> RatInt(0), eid |-> 0, heap |-> {},
                              customer_count |-> 0, cust |-> <<>>,
                              users |-> <<>>, put_queue |-> <<>>]
                      started == Schedule(env, "InitGen", 0, URGENT, RatInt(0))
                  IN  Schedule(started, "Stop", 0, URGENT, RunUntil(sims[i]))
        /\ UNCHANGED <<fitVars, queueVars, optVars, sims, results>>

\* customer_generator up to its first yield: lines 150-153
GeneratorStart ==
    /\ Running("InitGen")
    /\ run' = Schedule(Pop(run), "GenTimeout", 0, NORMAL,
                       expon_rvs(rng, sims[run.inst].lambda_rate))
    /\ rng' = Advance(rng)
    /\ UNCHANGED <<fitVars, queueVars, optVars, sims, results>>

\* customer_generator from one yield to the next: lines 155-160, 152-153
GeneratorArrival ==
    /\ Running("GenTimeout")
    /\ LET r == Pop(run)
           k == r.customer_count + 1
           spawned == Schedule([r EXCEPT !.customer_count = k,
                                         !.cust = Append(@, [state |-> "spawned",
                                                             arrive |-> <<>>,
                                                             usage_since |-> <<>>,
                                                             service_time |-> <<>>,
                                                             departed |-> <<>>])],
                               "InitCust", k, URGENT, RatInt(0))
       IN  /\ sims' = [sims EXCEPT ![run.inst].queue_lengths = Append(@, Len(r.put_queue))]
           /\ run' = Schedule(spawned, "GenTimeout", 0, NORMAL,
                              expon_rvs(rng, sims[run.inst].lambda_rate))
    /\ rng' = Advance(rng)
    /\ UNCHANGED <<fitVars, queueVars, optVars, results>>

\* customer up to "yield req": lines 134-137
CustomerArrive ==
    /\ Running("InitCust")
    /\ LET r == Pop(run)
           k == NextEvent(run).who
       IN  run' = TriggerPut([r EXCEPT !.cust[k].state = "requested",
                                       !.cust[k].arrive = <<r.now>>,
                                       !.put_queue = Append(@, k)],
                             sims[run.inst].c_servers)
    /\ UNCHANGED <<fitVars, queueVars, optVars, sims, rng, results>>

\* customer from "yield req" to "yield env.timeout": lines 139-143
CustomerAcquire ==
    /\ Running("Request")
    /\ LET r == Pop(run)
           k == NextEvent(run).who
           service_time == expon_rvs(rng, sims[run.inst].mu_rate)
       IN  /\ sims' = [sims EXCEPT ![run.inst].wait_times =
                           Append(@, RatSub(r.now, r.cust[k].arrive[1]))]
           /\ run' = Schedule([r EXCEPT !.cust[k].state = "serving",
                                        !.cust[k].service_time = <<service_time>>],
                              "SvcTimeout", k, NORMAL, service_time)
    /\ rng' = Advance(rng)
    /\ UNCHANGED <<fitVars, queueVars, optVars, results>>

\* customer from "yield env.timeout" to its end: lines 145-146, then the
\* with block releases the server and the process ends
CustomerDepart ==
    /\ Running("SvcTimeout")
    /\ LET r == Pop(run)
           k == NextEvent(run).who
           released == Schedule([r EXCEPT !.cust[k].state = "done",
                                          !.cust[k].departed = <<r.now>>,
                                          !.users = SelectSeq(@, LAMBDA x : x # k)],
                                "Release", k, NORMAL, RatInt(0))
       IN  /\ sims' = [sims EXCEPT ![run.inst].system_times =
                           Append(@, RatSub(r.now, r.cust[k].arrive[1]))]
           /\ run' = Schedule(released, "ProcEnd", k, NORMAL, RatInt(0))
    /\ UNCHANGED <<fitVars, queueVars, optVars, rng, results>>

\* the Release event is processed: its callback is Resource._trigger_put
ServerRelease ==
    /\ Running("Release")
    /\ run' = TriggerPut(Pop(run), sims[run.inst].c_servers)
    /\ UNCHANGED <<fitVars, queueVars, optVars, sims, rng, results>>

\* the event of an ended customer process is processed: no callbacks
ProcessEnd ==
    /\ Running("ProcEnd")
    /\ run' = Pop(run)
    /\ UNCHANGED <<fitVars, queueVars, optVars, sims, rng, results>>

\* env.run(until=sim_time) returns at its stop event; lines 184-200
StopSimulation ==
    /\ Running("Stop")
    /\ results' = Append(results, SimulationResult(sims[run.inst], Pop(run)))
    /\ run' = Idle
    /\ UNCHANGED <<fitVars, queueVars, optVars, sims, rng>>

NextSimulator ==
    \/ StartRun
    \/ GeneratorStart
    \/ GeneratorArrival
    \/ CustomerArrive
    \/ CustomerAcquire
    \/ CustomerDepart
    \/ ServerRelease
    \/ ProcessEnd
    \/ StopSimulation

SpecSimulator == InitSimulator /\ [][NextSimulator]_vars

(***************************************************************************)
(* The fitter specification: one DistributionFitter, any sequence of       *)
(* fit_distributions and get_best_distribution calls on it.                *)
(***************************************************************************)
DistributionLists ==
    {DefaultDistributions, <<"weibull_min", "gamma">>, <<"expon", "lognorm">>,
     <<"erlang_k">>, <<>>, <<"erlang_k", "expon", "weibull_min", "gamma">>}

Criteria == {"aic", "bic", "aicc"}

GofDistributions == {"expon", "lognorm", "erlang_k"}

\* the behaviours of stats.chisquare across scipy versions
ScipyVersions == [sum_check : BOOLEAN, nan_on_empty : BOOLEAN]

\* fitter = DistributionFitter()
InitFitter ==
    /\ NoQueue
    /\ NoOptimizer
    /\ NoSimulator
    /\ fitter = [fitted_distributions |-> <<>>]
    /\ bestCall = NotCalled
    /\ fitCall = NotCalled
    /\ gofCall = NotCalled

\* fitter.fit_distributions(data, distributions)
CallFitDistributions ==
    \E data \in DataSets, distributions \in DistributionLists :
        /\ fitter' = [fitter EXCEPT !.fitted_distributions =
                                        fit_distributions(data, distributions)]
        /\ fitCall' = [data |-> data, distributions |-> distributions,
                       outcome |-> Return(fit_distributions(data, distributions))]
        /\ UNCHANGED <<queueVars, optVars, simVars, bestCall, gofCall>>

\* fitter.get_best_distribution(data, criterion)
CallGetBestDistribution ==
    \E data \in DataSets, criterion \in Criteria :
        /\ fitter' = [fitter EXCEPT !.fitted_distributions = EnsureFitted(@, data)]
        /\ bestCall' = [data |-> data, criterion |-> criterion,
                        outcome |-> get_best_distribution(fitter.fitted_distributions,
                                                          data, criterion)]
        /\ UNCHANGED <<queueVars, optVars, simVars, fitCall, gofCall>>

\* fitter.goodness_of_fit_tests(data, distribution, params)
CallGoodnessOfFitTests ==
    \E data \in DataSets, distribution \in GofDistributions, scipy \in ScipyVersions :
        /\ gofCall' = [data |-> data, distribution |-> distribution,
                       outcome |-> goodness_of_fit_tests(data, distribution, scipy)]
        /\ UNCHANGED <<queueVars, optVars, simVars, fitter, bestCall, fitCall>>

NextFitter ==
    \/ CallFitDistributions
    \/ CallGetBestDistribution
    \/ CallGoodnessOfFitTests

SpecFitter == InitFitter /\ [][NextFitter]_vars

(***************************************************************************)
(* Properties of the queue model and the optimizer.                        *)
(***************************************************************************)
\* rho = lam / (c * mu) < 1 for mu > 0 and c >= 1, without division
RhoBelowOne(lam, mu, c) == lam < c * mu

\* Wq(c) <= sla for a stable queue with lam, mu > 0.  Wq is positive there
\* (Pw, rho and 1 - rho are), so no queue meets an SLA of 0.
WqWithin(o, c, sla) ==
    IF sla[1] = 0 THEN FALSE
    ELSE ~RatLess(sla, StableMetrics(MMcQueue(o.lambda_rate, o.mu_rate, c).value).Wq)

\* c is stable and, when an SLA is supplied, within it
Feasible(o, c, sla_wq) ==
    /\ c >= 1
    /\ RhoBelowOne(o.lambda_rate, o.mu_rate, c)
    /\ sla_wq.given => WqWithin(o, c, sla_wq.value)

\* Z(c) = c * serverCost + Lq(c) * waitingCost
Z(o, c) ==
    RatAdd(RatInt(c * o.cost_server),
           RatMul(StableMetrics(MMcQueue(o.lambda_rate, o.mu_rate, c).value).Lq,
                  RatInt(o.cost_waiting)))

\* C1: the lower end of optimize's scan, max(cMin, ceil(lam/mu) + 1), is the
\* smallest integer c >= cMin with rho < 1: it is stable and no server count
\* from cMin up to it is.
C1_ScanStartsAtLeastStable ==
    (optLocals # NotCalled /\ args.c_min >= 1) =>
        /\ optLocals.c_min >= args.c_min
        /\ RhoBelowOne(optimizer.lambda_rate, optimizer.mu_rate, optLocals.c_min)
        /\ \A c \in args.c_min..(optLocals.c_min - 1) :
              ~RhoBelowOne(optimizer.lambda_rate, optimizer.mu_rate, c)

\* C2: when optimize succeeds, optimal_c is a scanned, feasible server count,
\* total_cost is Z(optimal_c), no scanned feasible c costs less, and every
\* scanned feasible c below optimal_c costs strictly more (first minimum).
C2_OptimumIsFirstMinimum ==
    (optCall.kind = "return" /\ optCall.value.success) =>
        LET r == optCall.value
            scanned == optLocals.c_min..args.c_max
        IN  /\ r.optimal_c \in scanned
            /\ Feasible(optimizer, r.optimal_c, args.sla_wq)
            /\ r.total_cost = Z(optimizer, r.optimal_c)
            /\ \A c \in scanned :
                  Feasible(optimizer, c, args.sla_wq) =>
                      /\ RatLeq(r.total_cost, Z(optimizer, c))
                      /\ c < r.optimal_c => RatLess(r.total_cost, Z(optimizer, c))

\* a successful optimize whose optimum is neither the first nor the last of
\* at least three evaluated server counts
C2_Witness_InteriorOptimum ==
    /\ optCall.kind = "return"
    /\ optCall.value.success
    /\ Len(optCall.value.all_results) >= 3
    /\ optCall.value.optimal_c > optCall.value.all_results[1].c
    /\ optCall.value.optimal_c < args.c_max

\* the scan has no feasible c
NoFeasible ==
    \A c \in optLocals.c_min..args.c_max : ~Feasible(optimizer, c, args.sla_wq)

\* C3: if no c of the search range is stable and within the SLA, optimize
\* returns success = false with a message and no optimal_c, and raises nothing.
C3_InfeasibleIsReturnedNotRaised ==
    (optCall # NotCalled /\ NoFeasible) =>
        /\ optCall.kind = "return"
        /\ ~optCall.value.success
        /\ DOMAIN optCall.value = {"success", "message"}

\* C9: sensitivity_analysis((cMin, cMax)) evaluates as optimize(cMin, cMax)
\* without SLA does: same c values, same cost per c, same optimum, and no
\* optimum exactly when optimize fails.
C9_SensitivityMatchesOptimize ==
    (/\ optCall.kind = "return"
     /\ sensCall # NotCalled
     /\ ~args.sla_wq.given
     /\ args.c_min >= 1) =>
        /\ sensCall.kind = "return"
        /\ sensCall.value.has_optimum = optCall.value.success
        /\ optCall.value.success =>
              LET rows == optCall.value.all_results
                  sens == sensCall.value
              IN  /\ sens.lists.c_values = [i \in 1..Len(rows) |-> rows[i].c]
                  /\ sens.lists.total_costs = [i \in 1..Len(rows) |-> rows[i].cost]
                  /\ sens.optimal_c = optCall.value.optimal_c
                  /\ sens.optimal_cost = optCall.value.total_cost


\* the parameters lam, mu, c of a queue configuration are all positive
ValidParameters(lam, mu, c) == lam > 0 /\ mu > 0 /\ c > 0

\* C4: a queue configuration with a non-positive lambda, mu or c is rejected
\* at construction: none is ever constructed, nor used to produce a metrics
\* result.
C4_InvalidParametersRejected ==
    /\ queue.kind = "return" =>
          ValidParameters(queue.value.lambda_rate, queue.value.mu_rate, queue.value.c)
    /\ metrics.kind = "return" =>
          ValidParameters(queue.value.lambda_rate, queue.value.mu_rate, queue.value.c)
    /\ \A i \in SimIds :
          sims[i] # NotCalled =>
              ValidParameters(sims[i].lambda_rate, sims[i].mu_rate, sims[i].c_servers)

\* the fields of a degraded and of a full metrics result
DegradedFields == {"stable", "rho", "message"}
DerivedFields == {"P0", "Pw_erlang_c", "Lq", "L", "Wq", "W"}

\* C5: for a valid configuration, calculate_metrics returns the degraded
\* result (stable = false, rho, message and nothing else) exactly when
\* rho >= 1, returns stable = true with every derived metric populated
\* exactly when rho < 1, and never raises.
C5_DegradedExactlyWhenUnstable ==
    (/\ queue.kind = "return"
     /\ ValidParameters(queue.value.lambda_rate, queue.value.mu_rate, queue.value.c)
     /\ metrics # NotCalled) =>
        /\ metrics.kind = "return"
        /\ IF RhoBelowOne(queue.value.lambda_rate, queue.value.mu_rate, queue.value.c)
           THEN /\ metrics.value.stable
                /\ DerivedFields \subseteq DOMAIN metrics.value
                /\ \A f \in DerivedFields : IsFinite(metrics.value[f])
           ELSE /\ ~metrics.value.stable
                /\ DOMAIN metrics.value = DegradedFields
                /\ metrics.value.rho =
                       Rat(queue.value.lambda_rate, queue.value.c * queue.value.mu_rate)


(***************************************************************************)
(* Properties of the simulator.                                            *)
(***************************************************************************)
\* customer k has been granted a server (Resource._do_put set usage_since)
Granted(cust, k) == cust[k].usage_since # <<>>

\* the position of x in the sequence q, 0 when absent
IndexOf(q, x) == IF \E i \in 1..Len(q) : q[i] = x
                 THEN CHOOSE i \in 1..Len(q) : q[i] = x
                 ELSE 0

\* C6: customers acquire servers in arrival order.  For customers a before
\* b: b is granted a server only if a was, and no earlier than a; customers
\* resume with their server in that order too; the waiting queue is in
\* arrival order; and a customer granted a server holds it until its
\* service time has elapsed.
C6_FirstComeFirstServed ==
    run.kind = "running" =>
        LET cust == run.cust
            ids == 1..Len(cust)
        IN  /\ \A a, b \in ids :
                  a < b =>
                      /\ cust[b].arrive # <<>> =>
                            /\ cust[a].arrive # <<>>
                            /\ RatLeq(cust[a].arrive[1], cust[b].arrive[1])
                      /\ Granted(cust, b) =>
                            /\ Granted(cust, a)
                            /\ RatLeq(cust[a].usage_since[1], cust[b].usage_since[1])
                      /\ cust[b].state \in {"serving", "done"} =>
                            cust[a].state \in {"serving", "done"}
                      /\ (IndexOf(run.put_queue, a) > 0 /\ IndexOf(run.put_queue, b) > 0) =>
                            IndexOf(run.put_queue, a) < IndexOf(run.put_queue, b)
            /\ \A k \in ids :
                  /\ (Granted(cust, k) /\ cust[k].state # "done") =>
                        IndexOf(run.users, k) > 0
                  /\ cust[k].state = "done" =>
                        cust[k].departed[1] =
                            RatAdd(cust[k].usage_since[1], cust[k].service_time[1])

\* two customers waited together and the earlier one was granted the freed
\* server while the later one is still waiting
C6_Witness_QueuedServedInOrder ==
    /\ run.kind = "running"
    /\ \E a, b \in 1..Len(run.cust) :
          /\ a < b
          /\ Granted(run.cust, a)
          /\ RatLess(run.cust[a].arrive[1], run.cust[a].usage_since[1])
          /\ IndexOf(run.put_queue, b) > 0
          /\ RatLess(run.cust[b].arrive[1], run.cust[a].usage_since[1])

\* the samples a returned run added to the simulator's lists
Added(r, list) == Len(r.returned[list]) - r.before[list]

\* C7 as claimed: every customer spawned before the horizon finishes, so a
\* run adds as many wait samples and as many system-time samples as it
\* spawned customers.
C7_EverySpawnedCustomerFinishes ==
    \A i \in 1..Len(results) :
        /\ Added(results[i], "wait_times") = results[i].spawned
        /\ Added(results[i], "system_times") = results[i].spawned

\* the customers of a returned run in one of the given states
InState(r, states) == {k \in 1..Len(r.cust) : r.cust[k].state \in states}

\* C7 as amended: the run stops at the horizon.  Every customer of a run
\* arrived before the horizon; the run adds one wait sample for each
\* customer that acquired its server before the horizon and one system-time
\* sample for each that completed service before it; customers still
\* waiting or in service at the horizon add none.
C7_RunStopsAtHorizon ==
    \A i \in 1..Len(results) :
        LET r == results[i]
            horizon == RatInt(r.sim_time)
        IN  /\ Len(r.cust) = r.spawned
            /\ \A k \in 1..Len(r.cust) :
                  /\ r.cust[k].arrive # <<>>
                  /\ RatLess(r.cust[k].arrive[1], horizon)
                  /\ r.cust[k].state = "done" => RatLess(r.cust[k].departed[1], horizon)
            /\ Added(r, "wait_times") = Cardinality(InState(r, {"serving", "done"}))
            /\ Added(r, "system_times") = Cardinality(InState(r, {"done"}))
            /\ Added(r, "queue_lengths") = r.spawned

\* a run returned with a customer still waiting and another still in service
C7_Witness_CustomersCutOff ==
    \E i \in 1..Len(results) :
        /\ 0 < Added(results[i], "system_times")
        /\ Added(results[i], "system_times") < Added(results[i], "wait_times")
        /\ Added(results[i], "wait_times") < results[i].spawned
        /\ InState(results[i], {"requested"}) # {}

\* C8: two runs with the same seed and the same parameters return the same
\* sample sequences and the same customer count, on two simulators or on one.
C8_SameSeedSameResult ==
    \A i, j \in 1..Len(results) :
        (results[i].seed = results[j].seed /\ results[i].params = results[j].params) =>
            /\ results[i].returned = results[j].returned
            /\ results[i].total_customers = results[j].total_customers

(***************************************************************************)
(* Properties of the fitter.                                               *)
(***************************************************************************)
\* the last get_best_distribution call returned
BestReturned == bestCall # NotCalled /\ bestCall.outcome.kind = "return"

\* C10: get_best_distribution(data, criterion) returns the family of minimal
\* criterion among the fits of the data of that call, for some family list
\* the fitter can have been given, whatever calls came before.
C10_BestIsOfGivenData ==
    BestReturned =>
        \E distributions \in DistributionLists :
            bestCall.outcome =
                BestOf(fit_distributions(bestCall.data, distributions), bestCall.criterion)

\* the fit of family dist_name to data succeeds
FitSucceeds(data, dist_name) ==
    dist_name \in ScipyDistributions /\ ~FitFails(data, dist_name)

\* the positions of items holding the given name
PositionsOf(items, name) == {i \in 1..Len(items) : items[i].name = name}

\* C11: fit_distributions returns normally whatever families fail, and its
\* result holds one entry, with parameters, log-likelihood, AIC and BIC, for
\* exactly the families of the list whose fit succeeded, in the order of
\* the list, and none for a family whose fit failed.
C11_FailedFamiliesAreSkipped ==
    fitCall # NotCalled =>
        /\ fitCall.outcome.kind = "return"
        /\ LET fitted == fitCall.outcome.value
               dists == fitCall.distributions
           IN  /\ \A i \in 1..Len(dists) :
                     Cardinality(PositionsOf(fitted, dists[i])) =
                         IF FitSucceeds(fitCall.data, dists[i]) THEN 1 ELSE 0
               /\ \A j \in 1..Len(fitted) :
                     /\ \E i \in 1..Len(dists) : dists[i] = fitted[j].name
                     /\ DOMAIN fitted[j].info = {"params", "log_likelihood", "aic", "bic"}
                     /\ fitted[j].info.params = <<fitted[j].name, fitCall.data>>
               /\ \A i, j \in 1..Len(fitted) :
                     i < j => \E a, b \in 1..Len(dists) :
                                 a < b /\ dists[a] = fitted[i].name /\ dists[b] = fitted[j].name

\* a call whose first and third families failed and whose second and fourth
\* are in the result
C11_Witness_FailuresBetweenFits ==
    /\ fitCall # NotCalled
    /\ Len(fitCall.distributions) = 4
    /\ ~FitSucceeds(fitCall.data, fitCall.distributions[1])
    /\ ~FitSucceeds(fitCall.data, fitCall.distributions[3])
    /\ Len(fitCall.outcome.value) = 2
    /\ fitCall.outcome.value[2].name = fitCall.distributions[4]

\* the fields of the dict goodness_of_fit_tests documents
GofFields == {"ks_statistic", "ks_pvalue", "chi2_statistic", "chi2_pvalue"}

\* the number of bins that pass the expected-count filter
Survivors(data, dist_name) == Len(Mask(ExpectedTenths(data, dist_name)))

\* C12: when fewer than two bins pass the expected-count filter,
\* goodness_of_fit_tests returns a result that flags the chi-square test as
\* degenerate (a field beyond the four statistics, or no finite chi-square
\* statistic) rather than a statistic as for a valid test.
C12_DegenerateTestIsFlagged ==
    (/\ gofCall # NotCalled
     /\ gofCall.distribution \in ScipyDistributions
     /\ Survivors(gofCall.data, gofCall.distribution) < 2) =>
        /\ gofCall.outcome.kind = "return"
        /\ \/ DOMAIN gofCall.outcome.value # GofFields
           \/ ~IsFinite(gofCall.outcome.value.chi2_statistic)

(***************************************************************************)
(* Properties of the server pool.                                          *)
(***************************************************************************)
\* the Release events still to be processed at the current instant
PendingReleases(r) == {e \in r.heap : e.kind = "Release" /\ e.t = r.now}

\* the state part of C13, for the run in progress with capacity c
ServerPoolInvariant(r, c) ==
    /\ Len(r.users) <= c
    /\ \A i, j \in 1..Len(r.users) : i # j => r.users[i] # r.users[j]
    /\ \A k \in 1..Len(r.cust) :
          /\ IndexOf(r.users, k) > 0 <=> (Granted(r.cust, k) /\ r.cust[k].state # "done")
          /\ IndexOf(r.put_queue, k) > 0 <=>
                (r.cust[k].state = "requested" /\ ~Granted(r.cust, k))
          \* a customer that waited got its server at the instant of a release
          /\ (Granted(r.cust, k) /\ r.cust[k].usage_since # r.cust[k].arrive) =>
                /\ RatLess(r.cust[k].arrive[1], r.cust[k].usage_since[1])
                /\ \E j \in 1..Len(r.cust) :
                      r.cust[j].state = "done" /\ r.cust[j].departed = r.cust[k].usage_since
    \* a customer waits beside a free server only within the instant of a
    \* release whose hand-over is still to be processed
    /\ (r.put_queue # <<>> /\ Len(r.users) < c) => PendingReleases(r) # {}

\* the step part of C13: an arrival that finds a server free and nobody
\* waiting acquires the server at its arrival instant (wait = 0)
FreeArrivalAcquires ==
    (/\ Running("InitCust")
     /\ run.put_queue = <<>>
     /\ Len(run.users) < sims[run.inst].c_servers
     /\ run'.kind = "running") =>
        LET k == NextEvent(run).who
        IN  /\ IndexOf(run'.users, k) > 0
            /\ run'.cust[k].arrive = <<run'.now>>
            /\ run'.cust[k].usage_since = run'.cust[k].arrive

\* the step part of C13: processing a release with customers waiting hands
\* the server, at that instant, to the head of the queue
ReleaseGoesToHead ==
    (/\ Running("Release")
     /\ run.put_queue # <<>>
     /\ Len(run.users) < sims[run.inst].c_servers
     /\ run'.kind = "running") =>
        /\ IndexOf(run'.users, Head(run.put_queue)) > 0
        /\ run'.cust[Head(run.put_queue)].usage_since = <<run.now>>
        /\ run'.now = run.now

\* C13: at most c customers hold a server, each server is held by one
\* customer, a customer waits only while all c servers are held (or, at the
\* instant of a release, until its hand-over is processed), an arrival that
\* finds a free server acquires it at once with wait 0, and a release hands
\* the server at the same instant to the head of the queue.
C13_ServerPool ==
    /\ [](run.kind = "running" => ServerPoolInvariant(run, sims[run.inst].c_servers))
    /\ [][FreeArrivalAcquires /\ ReleaseGoesToHead]_vars

\* C13 as claimed, read on every state between two events: at most c
\* customers hold a server, no customer holds two, and a customer is in the
\* queue only if all c servers are held.
C13_WaitingOnlyWhenAllHeld ==
    run.kind = "running" =>
        /\ Len(run.users) <= sims[run.inst].c_servers
        /\ \A i, j \in 1..Len(run.users) : i # j => run.users[i] # run.users[j]
        /\ run.put_queue # <<>> => Len(run.users) = sims[run.inst].c_servers

\* a release was just made and the customer that has been waiting since
\* an earlier instant is still beside the free server: the hand-over is to
\* be processed at this instant
C13_Witness_HandOverPending ==
    /\ run.kind = "running"
    /\ run.put_queue # <<>>
    /\ Len(run.users) < sims[run.inst].c_servers
    /\ PendingReleases(run) # {}
    /\ RatLess(run.cust[Head(run.put_queue)].arrive[1], run.now)

(***************************************************************************)
(* Properties of the returned SimulationResult.                            *)
(***************************************************************************)
\* C14: total_customers is the number of customers that completed service
\* before the horizon; when it is positive the wait and system-time samples
\* are non-empty and Wq and W are defined means, and an estimate is
\* undefined only when it is 0.
C14_CountIsCompletedCustomers ==
    \A i \in 1..Len(results) :
        LET r == results[i]
        IN  /\ r.total_customers = Cardinality(InState(r, {"done"}))
            /\ r.total_customers > 0 =>
                  /\ r.returned.wait_times # <<>>
                  /\ r.returned.system_times # <<>>
                  /\ IsFinite(r.Wq_simulated)
                  /\ IsFinite(r.W_simulated)
            /\ (\/ ~IsFinite(r.Wq_simulated)
                \/ ~IsFinite(r.W_simulated)
                \/ ~IsFinite(r.Lq_simulated)) => r.total_customers = 0

\* lines 197-199: the three lists of a returned dict are the simulator's own
\* list objects, so their contents are those of the simulator's lists
SamplesOf(r) ==
    [wait_times |-> sims[r.inst].wait_times,
     system_times |-> sims[r.inst].system_times,
     queue_lengths |-> sims[r.inst].queue_lengths]

\* C15: the sample sequences of a returned result never change: at any
\* later time they are what they were when run_simulation returned.
C15_ReturnedSamplesNeverChange ==
    \A i \in 1..Len(results) : SamplesOf(results[i]) = results[i].returned


\* C16: in every successful optimize result, all_results is ordered by
\* strictly ascending c, holds exactly the c of [max(cMin, ceil(lam/mu) + 1),
\* cMax] that are stable and within the SLA when one is supplied, every row
\* has meets_sla = true, and optimal_c is the c of one of the rows.
C16_AllResultsAreTheFeasibleScan ==
    (optCall.kind = "return" /\ optCall.value.success) =>
        LET rows == optCall.value.all_results
        IN  /\ \A i \in 1..(Len(rows) - 1) : rows[i].c < rows[i + 1].c
            /\ {rows[i].c : i \in 1..Len(rows)} =
                   {c \in optLocals.c_min..args.c_max :
                       Feasible(optimizer, c, args.sla_wq)}
            /\ \A i \in 1..Len(rows) : rows[i].meets_sla = TRUE
            /\ \E i \in 1..Len(rows) : rows[i].c = optCall.value.optimal_c

\* a successful optimize under an SLA that excluded a stable server count of
\* the scan and kept at least two
C16_Witness_SlaExcludesStable ==
    /\ optCall.kind = "return"
    /\ optCall.value.success
    /\ args.sla_wq.given
    /\ Len(optCall.value.all_results) >= 2
    /\ \E c \in optLocals.c_min..args.c_max :
          /\ RhoBelowOne(optimizer.lambda_rate, optimizer.mu_rate, c)
          /\ ~Feasible(optimizer, c, args.sla_wq)

====
